---- MODULE Spec2Model ----
(***************************************************************************)
(* Ledger consistency model of the Smart Spend Assistant REST API.         *)
(*                                                                         *)
(* The state is the content of the `wallets`, `transactions` and           *)
(* `categories` collections.  Every request handler is a pure operator     *)
(* from (user, request, documents read before DB.transaction, documents    *)
(* read inside the callback) to a response status and the sequence of      *)
(* writes the callback issues; the actions of the specifications apply     *)
(* that result with the commit / abort semantics of DB.transaction.        *)
(***************************************************************************)
EXTENDS Integers, Sequences, FiniteSets, TLC

VARIABLES wallets, transactions, categories, nextId, ignoreUndefined, nops, last,
          inflight, session, notifications, messages, rooms, payments, users

vars == <<wallets, transactions, categories, nextId, ignoreUndefined, nops, last,
          inflight, session, notifications, messages, rooms, payments, users>>

\* the collections the ledger requests never write
side == <<notifications, messages, rooms, payments, users>>

(***************************************************************************)
(* Bounds of the model.                                                    *)
(***************************************************************************)
MaxAmount == 2
MaxTx == 3
MaxOps == 3
\* requests in flight at once
MaxInflight == 2
\* issues of one schema-validation error
MaxIssues == 3
\* payments created
MaxPayments == 2
\* the last calendar day of the requests
MaxDay == 1

(***************************************************************************)
(* Values.                                                                 *)
(***************************************************************************)
\* an optional number / id / string the request body leaves out
Undefined == -1
NoId == 0
Omitted == "omitted"

Users == {"u1", "u2"}
WalletIds == {"w1", "w2"}
Amounts == 1..MaxAmount

\* default of walletSchema.balance
InitBalance == 0
\* default of walletSchema.threshold
InitThreshold == 0

\* the registered users, with the status register gives them
InitUsers == [u \in Users |-> [status |-> "active"]]

\* both wallets are u1's; u2 has registered and holds no wallet yet
InitWallets ==
  [w \in WalletIds |->
     [user_id |-> "u1", balance |-> InitBalance, threshold |-> InitThreshold]]

\* the categories of the users: a debt and a loan category, and the two
\* well-known categories the repayment and collection endpoints look up by
\* name, which are also u1's expense and income category; u2 holds no
\* "Debt Collection" category
InitCategories ==
  [c \in {"c_debt", "c_loan", "c_repay", "c_collect", "d_repay"} |->
     CASE c = "c_debt"    -> [user_id |-> "u1", name |-> "Debt", type |-> "debt"]
       [] c = "c_loan"    -> [user_id |-> "u1", name |-> "Loan", type |-> "loan"]
       [] c = "c_repay"   -> [user_id |-> "u1", name |-> "Repayment", type |-> "expense"]
       [] c = "c_collect" -> [user_id |-> "u1", name |-> "Debt Collection", type |-> "income"]
       [] c = "d_repay"   -> [user_id |-> "u2", name |-> "Repayment", type |-> "expense"]]

(***************************************************************************)
(* The store.                                                              *)
(***************************************************************************)
Db == [wallets |-> wallets, transactions |-> transactions,
       categories |-> categories, nextId |-> nextId,
       notifications |-> notifications, messages |-> messages, rooms |-> rooms,
       payments |-> payments, users |-> users]

\* Transaction.where("parent_id", id).get()
Children(txs, id) == {c \in DOMAIN txs : txs[c].parent_id = id}

RECURSIVE SumAmmount(_, _)
SumAmmount(txs, S) ==
  IF S = {} THEN 0
  ELSE LET c == CHOOSE x \in S : TRUE
       IN txs[c].ammount + SumAmmount(txs, S \ {c})

Min(S) == CHOOSE x \in S : \A y \in S : x <= y

\* documents in insertion order
RECURSIVE SetToSeq(_)
SetToSeq(S) == IF S = {} THEN <<>> ELSE <<Min(S)>> \o SetToSeq(S \ {Min(S)})

\* the effect the code gives a category type on a balance
Sign(type) ==
  IF type \in {"income", "debt"} THEN 1
  ELSE IF type \in {"expense", "loan"} THEN -1
  ELSE 0

\* Category.where('user_id', u).where('name', n).first()
CategoryByName(cats, user_id, name) ==
  {c \in DOMAIN cats : cats[c].user_id = user_id /\ cats[c].name = name}

(***************************************************************************)
(* Writes issued inside a DB.transaction callback.  `session` tells        *)
(* whether the call passes { session }.                                    *)
(***************************************************************************)
TransactionCreate(doc) == [w |-> "create", doc |-> doc, session |-> TRUE]
TransactionUpdate(id, doc) == [w |-> "update", id |-> id, doc |-> doc, session |-> TRUE]
RemainingUpdate(id, v) == [w |-> "remaining", id |-> id, v |-> v, session |-> TRUE]
\* variant: the balance written outside the session
WalletUpdateNoSession(id, v) == [w |-> "balance", id |-> id, v |-> v, session |-> FALSE]
WalletUpdate(id, v) == [w |-> "balance", id |-> id, v |-> v, session |-> TRUE]
TransactionDelete(id) == [w |-> "delete", id |-> id, session |-> TRUE]
\* Wallet.where(...).update(doc) of the wallet endpoint, outside any session
WalletSet(id, doc) == [w |-> "wallet", id |-> id, doc |-> doc, session |-> FALSE]
\* Notification.create of the low-balance step passes no session
NotificationCreate == [w |-> "notify", session |-> FALSE]
\* variant: the message written outside the session
MessageCreateNoSession(doc) == [w |-> "message", doc |-> doc, session |-> FALSE]
MessageCreate(doc) == [w |-> "message", doc |-> doc, session |-> TRUE]
\* Room.firstOrCreate runs before DB.transaction
RoomFirstOrCreate(user_id) == [w |-> "room", user_id |-> user_id, session |-> FALSE]

\* variant: the payment updated outside the session
PaymentUpdateNoSession(id, v) == [w |-> "payment_status", id |-> id, v |-> v, session |-> FALSE]
PaymentCreate(doc) == [w |-> "payment", doc |-> doc, session |-> TRUE]
PaymentUpdate(id, v) == [w |-> "payment_status", id |-> id, v |-> v, session |-> TRUE]
UserUpdate(id, v) == [w |-> "user_status", id |-> id, v |-> v, session |-> TRUE]
\* PUT /api/categories/[id] opens no DB.transaction
CategoryUpdate(id, doc) == [w |-> "category", id |-> id, doc |-> doc, session |-> FALSE]

\* one write applied to the store; an update or delete that matches no
\* document changes nothing
ApplyWrite(db, wr) ==
  CASE wr.w = "create" ->
         [db EXCEPT !.transactions =
                       [i \in DOMAIN db.transactions \cup {db.nextId} |->
                          IF i = db.nextId THEN wr.doc ELSE db.transactions[i]],
                    !.nextId = db.nextId + 1]
    [] wr.w = "update" ->
         IF wr.id \in DOMAIN db.transactions
         THEN [db EXCEPT !.transactions[wr.id] =
                 [k \in DOMAIN @ |-> IF k \in DOMAIN wr.doc THEN wr.doc[k] ELSE @[k]]]
         ELSE db
    [] wr.w = "remaining" ->
         IF wr.id \in DOMAIN db.transactions
         THEN [db EXCEPT !.transactions[wr.id].remaining_ammount = wr.v]
         ELSE db
    [] wr.w = "balance" ->
         IF wr.id \in DOMAIN db.wallets
         THEN [db EXCEPT !.wallets[wr.id].balance = wr.v]
         ELSE db
    [] wr.w = "wallet" ->
         IF wr.id \in DOMAIN db.wallets
         THEN [db EXCEPT !.wallets[wr.id] =
                 [k \in DOMAIN @ \cup DOMAIN wr.doc |->
                    IF k \in DOMAIN wr.doc THEN wr.doc[k] ELSE @[k]]]
         ELSE db
    [] wr.w = "delete" ->
         [db EXCEPT !.transactions =
                       [i \in DOMAIN db.transactions \ {wr.id} |-> db.transactions[i]]]
    [] wr.w = "notify" ->
         [db EXCEPT !.notifications = db.notifications + 1]
    [] wr.w = "message" ->
         [db EXCEPT !.messages = Append(db.messages, wr.doc)]
    [] wr.w = "room" ->
         [db EXCEPT !.rooms = db.rooms \cup {wr.user_id}]
    [] wr.w = "category" ->
         IF wr.id \in DOMAIN db.categories
         THEN [db EXCEPT !.categories[wr.id].name = wr.doc.name,
                         !.categories[wr.id].type = wr.doc.type]
         ELSE db
    [] wr.w = "payment" ->
         [db EXCEPT !.payments = Append(db.payments, wr.doc)]
    [] wr.w = "payment_status" ->
         IF wr.id \in DOMAIN db.payments
         THEN [db EXCEPT !.payments[wr.id].status = wr.v]
         ELSE db
    [] wr.w = "user_status" ->
         IF wr.id \in DOMAIN db.users
         THEN [db EXCEPT !.users[wr.id].status = wr.v]
         ELSE db

RECURSIVE ApplyWrites(_, _)
ApplyWrites(db, ws) ==
  IF ws = <<>> THEN db ELSE ApplyWrites(ApplyWrite(db, Head(ws)), Tail(ws))

\* a handler's result: the response status and the writes issued before the
\* handler returned or threw
Resp(status, writes) == [status |-> status, writes |-> writes]

\* DB.transaction: the writes of the session are committed when the callback
\* returns and discarded when it throws; a write issued without the session
\* is not covered by the abort
Unsessioned(wr) == ~wr.session

DBtransaction(db, r) ==
  IF r.status < 400 THEN ApplyWrites(db, r.writes)
  ELSE ApplyWrites(db, SelectSeq(r.writes, Unsessioned))

(***************************************************************************)
(* POST /api/transactions                                                  *)
(***************************************************************************)
\* validatedData.message_id, optional in every schema that has it
MessageId(body) ==
  IF "message_id" \in DOMAIN body THEN body.message_id ELSE NoId

\* variant: the document is looked up and its owner is not tested
OwnershipUnchecked(docs, id, user_id) ==
  IF id \notin DOMAIN docs THEN 404 ELSE 0

\* the lookup of a wallet or category and the test of its owner; 0 when
\* both pass
Ownership(docs, id, user_id) ==
  IF id \notin DOMAIN docs THEN 404
  ELSE IF docs[id].user_id # user_id THEN 403
  ELSE 0

POST_transactions(user_id, body, pre, cur) ==
  IF Ownership(pre.wallets, body.wallet_id, user_id) # 0
  THEN Resp(Ownership(pre.wallets, body.wallet_id, user_id), <<>>)
  ELSE IF Ownership(pre.categories, body.category_id, user_id) # 0
  THEN Resp(Ownership(pre.categories, body.category_id, user_id), <<>>)
  ELSE
    LET wallet == pre.wallets[body.wallet_id]
        category == pre.categories[body.category_id]
        remaining_ammount ==
          IF category.type \in {"debt", "loan"} THEN body.ammount
          ELSE IF body.remaining_ammount = Undefined THEN 0
          ELSE body.remaining_ammount
        transactionData ==
          [ammount |-> body.ammount,
           category_id |-> body.category_id,
           wallet_id |-> body.wallet_id,
           parent_id |-> body.parent_id,
           remaining_ammount |-> remaining_ammount,
           message_id |-> MessageId(body)]
    IN Resp(201, <<TransactionCreate(transactionData),
                   WalletUpdate(body.wallet_id,
                                wallet.balance + Sign(category.type) * body.ammount)>>)

(***************************************************************************)
(* POST /api/debts/repayments and POST /api/debts/collections              *)
(***************************************************************************)
\* variant: the test made against the parent's full amount
RemainingExceededOfAmmount(ammount, debt) ==
  ammount > debt.ammount

\* the over-payment test of the two endpoints
RemainingExceeded(ammount, debt) ==
  ammount > debt.remaining_ammount \/ debt.remaining_ammount = 0

ChildCreate(user_id, body, pre, name, sign) ==
  IF CategoryByName(pre.categories, user_id, name) = {} THEN Resp(404, <<>>)
  ELSE IF body.parent_id \notin DOMAIN pre.transactions THEN Resp(404, <<>>)
  ELSE
    LET category == CHOOSE c \in CategoryByName(pre.categories, user_id, name) : TRUE
        debt == pre.transactions[body.parent_id]
    IN IF RemainingExceeded(body.ammount, debt)
       THEN Resp(400, <<>>)
       ELSE IF body.wallet_id \notin DOMAIN pre.wallets THEN Resp(404, <<>>)
       ELSE
         LET wallet == pre.wallets[body.wallet_id]
             transactionData ==
               [ammount |-> body.ammount,
                category_id |-> category,
                wallet_id |-> body.wallet_id,
                parent_id |-> body.parent_id,
                remaining_ammount |-> 0,
                message_id |-> NoId]
         IN Resp(200, <<TransactionCreate(transactionData),
                        RemainingUpdate(body.parent_id,
                                        debt.remaining_ammount - body.ammount),
                        WalletUpdate(body.wallet_id,
                                     wallet.balance + sign * body.ammount)>>)

POST_repayments(user_id, body, pre, cur) ==
  ChildCreate(user_id, body, pre, "Repayment", -1)

POST_collections(user_id, body, pre, cur) ==
  ChildCreate(user_id, body, pre, "Debt Collection", 1)

(***************************************************************************)
(* PUT /api/transactions/[id]                                              *)
(***************************************************************************)
\* variant: only the wallet of the stored transaction is tested
ValidateCurrentWallet(user_id, id, body, pre) ==
  IF id \notin DOMAIN pre.transactions THEN 404
  ELSE IF \/ pre.transactions[id].wallet_id \notin DOMAIN pre.wallets
          \/ pre.wallets[pre.transactions[id].wallet_id].user_id # user_id
  THEN 403
  ELSE 0

\* the ownership checks made before DB.transaction; 0 when they pass
ValidateUpdate(user_id, id, body, pre) ==
  IF id \notin DOMAIN pre.transactions THEN 404
  ELSE
    LET transaction == pre.transactions[id]
    IN IF \/ transaction.wallet_id \notin DOMAIN pre.wallets
          \/ pre.wallets[transaction.wallet_id].user_id # user_id
       THEN 403
       ELSE IF /\ body.wallet_id # Omitted
               /\ body.wallet_id # transaction.wallet_id
               /\ \/ body.wallet_id \notin DOMAIN pre.wallets
                  \/ pre.wallets[body.wallet_id].user_id # user_id
       THEN 403
       ELSE IF /\ body.category_id # Omitted
               /\ body.category_id # transaction.category_id
               /\ \/ body.category_id \notin DOMAIN pre.categories
                  \/ pre.categories[body.category_id].user_id # user_id
       THEN 403
       ELSE 0

\* variant: the old effect is not reversed
NewEffectOnly(oldType, oldAmount, newType, newAmount) ==
  Sign(newType) * newAmount

\* balanceAdjustment: the old effect reversed, the new effect applied
BalanceAdjustment(oldType, oldAmount, newType, newAmount) ==
  Sign(newType) * newAmount - Sign(oldType) * oldAmount

\* a field assigned `undefined` in an update document is dropped by the
\* driver when it ignores undefined values and is stored as null otherwise
ParentField(parent_id, ignore) ==
  IF parent_id # NoId THEN [parent_id |-> parent_id]
  ELSE IF ignore THEN <<>>
  ELSE [parent_id |-> NoId]

MessageIdField(message_id, ignore) ==
  IF message_id # NoId THEN [message_id |-> message_id]
  ELSE IF ignore THEN <<>>
  ELSE [message_id |-> NoId]

\* variant: the payments made are not taken off
CalculatedWithoutPayments(isDebt, ammount, totalPayments) ==
  IF isDebt THEN ammount ELSE 0

\* calculatedRemainingAmount: what is left of a debt or loan of `ammount`
\* after the payments of its children; 0 for any other transaction
CalculatedRemainingAmount(isDebt, ammount, totalPayments) ==
  IF isDebt THEN ammount - totalPayments ELSE 0

\* a remaining amount the client supplies without need
RemainingAccepted(isDebt, supplied, calculated) == FALSE

\* the remaining amount the client supplies for a debt or loan is not the
\* calculated one
RemainingMismatch(isDebt, supplied, calculated) ==
  /\ isDebt
  /\ supplied # Undefined
  /\ supplied # calculated

PUT_transactions(user_id, id, body, pre, cur, ignore) ==
  IF ValidateUpdate(user_id, id, body, pre) # 0
  THEN Resp(ValidateUpdate(user_id, id, body, pre), <<>>)
  ELSE IF \/ pre.transactions[id].category_id \notin DOMAIN cur.categories
          \/ body.category_id \notin DOMAIN cur.categories
  THEN Resp(404, <<>>)
  ELSE
    LET transaction == pre.transactions[id]
        wallet == pre.wallets[transaction.wallet_id]
        oldCategory == cur.categories[transaction.category_id]
        newCategory == cur.categories[body.category_id]
        isDebt == newCategory.type \in {"debt", "loan"}
        totalPayments == SumAmmount(cur.transactions, Children(cur.transactions, id))
        calculatedRemainingAmount ==
          CalculatedRemainingAmount(isDebt, body.ammount, totalPayments)
        balanceAdjustment ==
          BalanceAdjustment(oldCategory.type, transaction.ammount,
                            newCategory.type, body.ammount)
        walletWrite ==
          IF balanceAdjustment # 0
          THEN <<WalletUpdate(transaction.wallet_id, wallet.balance + balanceAdjustment)>>
          ELSE <<>>
        parentId == IF body.parent_id # NoId THEN body.parent_id ELSE transaction.parent_id
        hasParent ==
          /\ parentId # NoId
          /\ parentId \in DOMAIN cur.transactions
          /\ cur.transactions[parentId].category_id \in DOMAIN cur.categories
          /\ cur.categories[cur.transactions[parentId].category_id].type \in {"debt", "loan"}
        others == Children(cur.transactions, parentId) \ {id}
        totalChildPayments ==
          SumAmmount(cur.transactions, others)
            + (IF id \in Children(cur.transactions, parentId) THEN body.ammount ELSE 0)
        newParentRemainingAmount == cur.transactions[parentId].ammount - totalChildPayments
        parentWrite ==
          IF hasParent THEN <<RemainingUpdate(parentId, newParentRemainingAmount)>> ELSE <<>>
        transactionData ==
          [ammount |-> body.ammount,
           category_id |-> body.category_id,
           wallet_id |-> body.wallet_id,
           remaining_ammount |-> calculatedRemainingAmount]
            @@ ParentField(body.parent_id, ignore)
            @@ MessageIdField(MessageId(body), ignore)
    IN IF isDebt /\ calculatedRemainingAmount < 0 THEN Resp(400, <<>>)
       ELSE IF RemainingMismatch(isDebt, body.remaining_ammount,
                                 calculatedRemainingAmount)
       THEN Resp(400, <<>>)
       ELSE IF hasParent /\ newParentRemainingAmount < 0 THEN Resp(400, walletWrite)
       ELSE Resp(200, walletWrite \o parentWrite \o <<TransactionUpdate(id, transactionData)>>)

\* the later revision of the handler: every field of the body is optional,
\* a change of wallet moves the effect, remaining amounts are not recomputed
OptionalField(name, v, none) == IF v = none THEN <<>> ELSE [k \in {name} |-> v]

PUT_transactions_v2(user_id, id, body, pre, cur) ==
  IF ValidateUpdate(user_id, id, body, pre) # 0
  THEN Resp(ValidateUpdate(user_id, id, body, pre), <<>>)
  ELSE IF \/ pre.transactions[id].category_id \notin DOMAIN cur.categories
          \/ /\ body.category_id # Omitted
             /\ body.category_id \notin DOMAIN cur.categories
  THEN Resp(404, <<>>)
  ELSE
    LET transaction == pre.transactions[id]
        oldAmount == transaction.ammount
        oldCategory == cur.categories[transaction.category_id]
        newCategory == IF body.category_id # Omitted
                       THEN cur.categories[body.category_id] ELSE oldCategory
        newAmount == IF body.ammount # Undefined THEN body.ammount ELSE oldAmount
        balanceAdjustment ==
          BalanceAdjustment(oldCategory.type, oldAmount, newCategory.type, newAmount)
        updateData ==
          OptionalField("ammount", body.ammount, Undefined)
            @@ OptionalField("category_id", body.category_id, Omitted)
            @@ OptionalField("wallet_id", body.wallet_id, Omitted)
            @@ OptionalField("parent_id", body.parent_id, NoId)
            @@ OptionalField("remaining_ammount", body.remaining_ammount, Undefined)
            @@ OptionalField("message_id", MessageId(body), NoId)
        currentWallet == cur.wallets[transaction.wallet_id]
        walletWrites ==
          IF body.wallet_id # Omitted /\ body.wallet_id # transaction.wallet_id
          THEN <<WalletUpdate(transaction.wallet_id,
                              currentWallet.balance - Sign(oldCategory.type) * oldAmount),
                 WalletUpdate(body.wallet_id,
                              cur.wallets[body.wallet_id].balance
                                + Sign(newCategory.type) * newAmount)>>
          ELSE IF balanceAdjustment # 0
          THEN <<WalletUpdate(transaction.wallet_id,
                              currentWallet.balance + balanceAdjustment)>>
          ELSE <<>>
    IN Resp(200, walletWrites \o <<TransactionUpdate(id, updateData)>>)

(***************************************************************************)
(* DELETE /api/transactions/[id]                                           *)
(***************************************************************************)
\* what the loop over the children adds to wallet.balance
RECURSIVE ChildrenReversal(_, _)
ChildrenReversal(cur, S) ==
  IF S = {} THEN 0
  ELSE LET c == CHOOSE x \in S : TRUE
           child == cur.transactions[c]
           effect == IF child.category_id \in DOMAIN cur.categories
                     THEN Sign(cur.categories[child.category_id].type) * child.ammount
                     ELSE 0
       IN ChildrenReversal(cur, S \ {c}) - effect

DeleteChildren(ids) == [i \in 1..Len(ids) |-> TransactionDelete(ids[i])]

DELETE_transactions(user_id, id, pre, cur) ==
  IF id \notin DOMAIN pre.transactions THEN Resp(404, <<>>)
  ELSE
    LET transaction == pre.transactions[id]
    IN IF \/ transaction.wallet_id \notin DOMAIN pre.wallets
          \/ pre.wallets[transaction.wallet_id].user_id # user_id
       THEN Resp(403, <<>>)
       ELSE
         LET wallet == pre.wallets[transaction.wallet_id]
             children == Children(cur.transactions, id)
             own == IF transaction.category_id \in DOMAIN pre.categories
                    THEN Sign(pre.categories[transaction.category_id].type)
                           * transaction.ammount
                    ELSE 0
             balance == wallet.balance + ChildrenReversal(cur, children) - own
         IN Resp(200, DeleteChildren(SetToSeq(children))
                        \o <<WalletUpdate(transaction.wallet_id, balance),
                             TransactionDelete(id)>>)

(***************************************************************************)
(* Requests handled one at a time.                                         *)
(***************************************************************************)
Slots == 1..MaxInflight
Idle == [phase |-> "idle"]
Closed == [phase |-> "closed"]

NoRequest ==
  [op |-> "none", status |-> 0, user_id |-> "u1", id |-> NoId,
   ammount |-> 0, wallet_id |-> Omitted, issued |-> 0,
   category_id |-> Omitted, parent_id |-> NoId]

Init ==
  /\ wallets = InitWallets
  /\ transactions = <<>>
  /\ categories = InitCategories
  /\ nextId = 1
  /\ ignoreUndefined \in BOOLEAN
  /\ nops = 0
  /\ last = NoRequest
  /\ inflight = [s \in Slots |-> Idle]
  /\ session = Closed
  /\ notifications = 0
  /\ messages = <<>>
  /\ rooms = {}
  /\ payments = <<>>
  /\ users = InitUsers

CreateBodies ==
  [ammount : Amounts,
   category_id : DOMAIN categories,
   wallet_id : WalletIds,
   parent_id : {NoId} \cup DOMAIN transactions,
   remaining_ammount : {Undefined, 1}]

ChildBodies ==
  [ammount : Amounts, wallet_id : WalletIds, parent_id : DOMAIN transactions]

UpdateBodies == CreateBodies

UpdateBodiesV2 ==
  [ammount : Amounts \cup {Undefined},
   category_id : DOMAIN categories \cup {Omitted},
   wallet_id : WalletIds \cup {Omitted},
   parent_id : {NoId} \cup DOMAIN transactions,
   remaining_ammount : {Undefined, 1}]

\* what is recorded of the body of a request that names no category, and of
\* one that has no body
ChildRequest(body) == body @@ [category_id |-> Omitted]

NoBody ==
  [ammount |-> 0, wallet_id |-> Omitted, category_id |-> Omitted, parent_id |-> NoId]

\* the request is served: its writes are committed or discarded, and the
\* response is recorded
Serve(op, user_id, id, body, r) ==
  /\ nops' = nops + 1
  /\ LET db == DBtransaction(Db, r)
     IN /\ wallets' = db.wallets
        /\ transactions' = db.transactions
        /\ categories' = db.categories
        /\ nextId' = db.nextId
  /\ last' = [op |-> op, status |-> r.status, user_id |-> user_id, id |-> id,
              ammount |-> body.ammount, wallet_id |-> body.wallet_id,
              issued |-> Len(r.writes),
              category_id |-> body.category_id, parent_id |-> body.parent_id]
  /\ UNCHANGED <<ignoreUndefined, inflight, session>>
  /\ UNCHANGED side

Create ==
  /\ nops < MaxOps
  /\ \E user_id \in Users, body \in CreateBodies :
    /\ nextId <= MaxTx
    /\ Serve("create", user_id, nextId, body,
             POST_transactions(user_id, body, Db, Db))

Repayment ==
  /\ nops < MaxOps
  /\ \E user_id \in Users, body \in ChildBodies :
    /\ nextId <= MaxTx
    /\ Serve("repayment", user_id, body.parent_id, ChildRequest(body),
             POST_repayments(user_id, body, Db, Db))

Collection ==
  /\ nops < MaxOps
  /\ \E user_id \in Users, body \in ChildBodies :
    /\ nextId <= MaxTx
    /\ Serve("collection", user_id, body.parent_id, ChildRequest(body),
             POST_collections(user_id, body, Db, Db))

Update ==
  /\ nops < MaxOps
  /\ \E user_id \in Users, id \in DOMAIN transactions, body \in UpdateBodies :
    Serve("update", user_id, id, body,
          PUT_transactions(user_id, id, body, Db, Db, ignoreUndefined))

UpdateV2 ==
  /\ nops < MaxOps
  /\ \E user_id \in Users, id \in DOMAIN transactions, body \in UpdateBodiesV2 :
    Serve("update_v2", user_id, id, body,
          PUT_transactions_v2(user_id, id, body, Db, Db))

Delete ==
  /\ nops < MaxOps
  /\ \E user_id \in Users, id \in DOMAIN transactions :
    Serve("delete", user_id, id, NoBody,
          DELETE_transactions(user_id, id, Db, Db))

Next ==
  \/ Create
  \/ Repayment
  \/ Collection
  \/ Update
  \/ Delete

Spec == Init /\ [][Next]_vars

\* the build with the later revision of PUT /api/transactions/[id]
NextV2 ==
  \/ Create
  \/ Repayment
  \/ Collection
  \/ UpdateV2
  \/ Delete

SpecV2 == Init /\ [][NextV2]_vars

(***************************************************************************)
(* Requests that name documents of another user and documents that do not  *)
(* exist.  Each user holds one wallet; "w0" and "c0" are ids of no         *)
(* document.                                                               *)
(***************************************************************************)
AccessWallets ==
  [w \in WalletIds |->
     [user_id |-> IF w = "w1" THEN "u1" ELSE "u2",
      balance |-> InitBalance, threshold |-> InitThreshold]]

InitAccess ==
  /\ wallets = AccessWallets
  /\ transactions = <<>>
  /\ categories = InitCategories
  /\ nextId = 1
  /\ ignoreUndefined \in BOOLEAN
  /\ nops = 0
  /\ last = NoRequest
  /\ inflight = [s \in Slots |-> Idle]
  /\ session = Closed
  /\ notifications = 0
  /\ messages = <<>>
  /\ rooms = {}
  /\ payments = <<>>
  /\ users = InitUsers

AccessBodies ==
  [ammount : {1},
   category_id : {"c_collect", "d_repay", "c0"},
   wallet_id : WalletIds \cup {"w0"},
   parent_id : {NoId},
   remaining_ammount : {Undefined}]

AccessBodiesV2 ==
  [ammount : {1},
   category_id : {"c_collect", "d_repay", "c0", Omitted},
   wallet_id : WalletIds \cup {"w0", Omitted},
   parent_id : {NoId},
   remaining_ammount : {Undefined}]

CreateAccess ==
  /\ nops < MaxOps
  /\ \E user_id \in Users, body \in AccessBodies :
    /\ nextId <= MaxTx
    /\ Serve("create", user_id, nextId, body,
             POST_transactions(user_id, body, Db, Db))

UpdateAccess ==
  /\ nops < MaxOps
  /\ \E user_id \in Users, id \in DOMAIN transactions, body \in AccessBodies :
    Serve("update", user_id, id, body,
          PUT_transactions(user_id, id, body, Db, Db, ignoreUndefined))

UpdateAccessV2 ==
  /\ nops < MaxOps
  /\ \E user_id \in Users, id \in DOMAIN transactions, body \in AccessBodiesV2 :
    Serve("update_v2", user_id, id, body,
          PUT_transactions_v2(user_id, id, body, Db, Db))

NextAccess ==
  \/ CreateAccess
  \/ UpdateAccess
  \/ UpdateAccessV2

SpecAccess == InitAccess /\ [][NextAccess]_vars

(***************************************************************************)
(* PUT /api/categories/[id], and the ledger of a user who edits the        *)
(* categories the repayment and collection endpoints look up by name.      *)
(***************************************************************************)
CategoryTypes == {"income", "expense", "debt", "loan"}

PUT_categories(user_id, id, body, pre) ==
  IF Ownership(pre.categories, id, user_id) # 0
  THEN Resp(Ownership(pre.categories, id, user_id), <<>>)
  ELSE Resp(200, <<CategoryUpdate(id, [name |-> body.name, type |-> body.type])>>)

\* a new type for a category, which keeps its name
CategoryBodies(id) == [name : {categories[id].name}, type : CategoryTypes]

UpdateCategory ==
  /\ nops < MaxOps
  /\ \E user_id \in Users, id \in {"c_repay", "c_collect", "c_debt"} :
       \E body \in CategoryBodies(id) :
         Serve("category", user_id, NoId,
               [ammount |-> 0, wallet_id |-> Omitted, category_id |-> id,
                parent_id |-> NoId],
               PUT_categories(user_id, id, body, Db))

\* creates of a debt and of a loan
ParentBodies ==
  [ammount : {MaxAmount},
   category_id : {"c_debt", "c_loan"},
   wallet_id : {"w1"},
   parent_id : {NoId},
   remaining_ammount : {Undefined}]

CreateParent ==
  /\ nops < MaxOps
  /\ \E body \in ParentBodies :
    /\ nextId <= MaxTx
    /\ Serve("create", "u1", nextId, body, POST_transactions("u1", body, Db, Db))

NextCategories ==
  \/ UpdateCategory
  \/ CreateParent
  \/ Repayment
  \/ Collection
  \/ Delete

SpecCategories == Init /\ [][NextCategories]_vars

(***************************************************************************)
(* The ledger of a user who holds two debts: payments are made on them and *)
(* moved from one to the other.                                            *)
(***************************************************************************)
EmptyDb ==
  [wallets |-> InitWallets, transactions |-> <<>>, categories |-> InitCategories,
   nextId |-> 1, notifications |-> 0, messages |-> <<>>, rooms |-> {},
   payments |-> <<>>, users |-> InitUsers]

DebtBody ==
  [ammount |-> MaxAmount, category_id |-> "c_debt", wallet_id |-> "w1",
   parent_id |-> NoId, remaining_ammount |-> Undefined]

\* the store after u1 has created two debts in w1
TwoDebts ==
  LET one == DBtransaction(EmptyDb, POST_transactions("u1", DebtBody, EmptyDb, EmptyDb))
  IN DBtransaction(one, POST_transactions("u1", DebtBody, one, one))

InitMove ==
  /\ wallets = TwoDebts.wallets
  /\ transactions = TwoDebts.transactions
  /\ categories = InitCategories
  /\ nextId = TwoDebts.nextId
  /\ ignoreUndefined \in BOOLEAN
  /\ nops = 0
  /\ last = NoRequest
  /\ inflight = [s \in Slots |-> Idle]
  /\ session = Closed
  /\ notifications = 0
  /\ messages = <<>>
  /\ rooms = {}
  /\ payments = <<>>
  /\ users = InitUsers

\* updates of a repayment: its amount and its parent
MoveBodies ==
  [ammount : Amounts,
   category_id : {"c_repay"},
   wallet_id : {"w1"},
   parent_id : {NoId} \cup DOMAIN transactions,
   remaining_ammount : {Undefined}]

UpdateChild ==
  /\ nops < MaxOps
  /\ \E id \in DOMAIN transactions, body \in MoveBodies :
    Serve("update", "u1", id, body,
          PUT_transactions("u1", id, body, Db, Db, ignoreUndefined))

NextMove ==
  \/ Repayment
  \/ UpdateChild

SpecMove == InitMove /\ [][NextMove]_vars

(***************************************************************************)
(* Updates of a debt that has payments, with and without a remaining       *)
(* amount in the body.                                                     *)
(***************************************************************************)
RemainingBodies ==
  [ammount : Amounts,
   category_id : {"c_debt", "c_loan", "c_collect"},
   wallet_id : {"w1"},
   parent_id : {NoId},
   remaining_ammount : {Undefined} \cup (0..MaxAmount)]

\* the update is served, and the remaining amount of its body is recorded
UpdateRemaining ==
  /\ nops < MaxOps
  /\ \E id \in DOMAIN transactions, body \in RemainingBodies :
    /\ nops' = nops + 1
    /\ LET r == PUT_transactions("u1", id, body, Db, Db, ignoreUndefined)
           db == DBtransaction(Db, r)
       IN /\ wallets' = db.wallets
          /\ transactions' = db.transactions
          /\ last' = [op |-> "update", status |-> r.status, user_id |-> "u1",
                      id |-> id, ammount |-> body.ammount,
                      wallet_id |-> body.wallet_id, issued |-> Len(r.writes),
                      category_id |-> body.category_id,
                      parent_id |-> body.parent_id,
                      remaining_ammount |-> body.remaining_ammount]
    /\ UNCHANGED <<categories, nextId, ignoreUndefined, inflight, session>>
    /\ UNCHANGED side

NextRemaining ==
  \/ Repayment
  \/ UpdateRemaining

SpecRemaining == InitMove /\ [][NextRemaining]_vars

(***************************************************************************)
(* Requests in flight together.  A handler reads its documents before      *)
(* DB.transaction without a session (Begin), and later runs the callback,  *)
(* whose writes commit together (Finish); the callback computes what it    *)
(* writes from the documents read at Begin.  The reads the callback makes  *)
(* itself are taken at Finish.                                             *)
(***************************************************************************)
Handle(req, pre, cur, ignore) ==
  CASE req.op = "create"     -> POST_transactions(req.user_id, req.body, pre, cur)
    [] req.op = "repayment"  -> POST_repayments(req.user_id, req.body, pre, cur)
    [] req.op = "collection" -> POST_collections(req.user_id, req.body, pre, cur)
    [] req.op = "update"     -> PUT_transactions(req.user_id, req.id, req.body, pre, cur, ignore)
    [] req.op = "delete"     -> DELETE_transactions(req.user_id, req.id, pre, cur)

\* the requests of the owner of the wallets
OwnerBodies ==
  [ammount : Amounts,
   category_id : {c \in DOMAIN categories : categories[c].user_id = "u1"},
   wallet_id : WalletIds,
   parent_id : {NoId},
   remaining_ammount : {Undefined}]

OwnerRequests ==
  [op : {"create"}, user_id : {"u1"}, id : {NoId}, body : OwnerBodies]
    \cup [op : {"update"}, user_id : {"u1"}, id : DOMAIN transactions, body : OwnerBodies]
    \cup [op : {"repayment", "collection"}, user_id : {"u1"}, id : {NoId}, body : ChildBodies]
    \cup [op : {"delete"}, user_id : {"u1"}, id : DOMAIN transactions, body : {<<>>}]

Creates(req) == req.op \in {"create", "repayment", "collection"}

Reading == {s \in Slots : inflight[s].phase = "read"}

\* what the request adds to the balance of wallet w, by its own account: the
\* balance it writes less the balance it read
RECURSIVE BalanceDelta(_, _, _)
BalanceDelta(ws, pre, w) ==
  IF ws = <<>> THEN 0
  ELSE (IF Head(ws).w = "balance" /\ Head(ws).id = w
        THEN Head(ws).v - pre.wallets[w].balance ELSE 0)
       + BalanceDelta(Tail(ws), pre, w)

Begin(s) ==
  /\ nops < MaxOps
  /\ inflight[s].phase # "read"
  /\ s > 1 => inflight[s - 1].phase = "read"
  /\ \E req \in OwnerRequests :
       /\ Creates(req) => nextId + Cardinality(Reading) <= MaxTx
       /\ inflight' = [inflight EXCEPT ![s] = [phase |-> "read", req |-> req, pre |-> Db]]
  /\ nops' = nops + 1
  /\ UNCHANGED <<wallets, transactions, categories, nextId, ignoreUndefined, last,
                 session>>
  /\ UNCHANGED side

Finish(s) ==
  /\ inflight[s].phase = "read"
  /\ LET req == inflight[s].req
         pre == inflight[s].pre
         r == Handle(req, pre, Db, ignoreUndefined)
         db == DBtransaction(Db, r)
     IN /\ wallets' = db.wallets
        /\ transactions' = db.transactions
        /\ categories' = db.categories
        /\ nextId' = db.nextId
        /\ inflight' = [inflight EXCEPT ![s] =
                          [phase |-> "done", req |-> req, pre |-> pre,
                           status |-> r.status,
                           delta |-> [w \in WalletIds |->
                                        IF r.status < 400
                                        THEN BalanceDelta(r.writes, pre, w) ELSE 0]]]
  /\ UNCHANGED <<ignoreUndefined, nops, last, session>>
  /\ UNCHANGED side

NextConcurrent == \E s \in Slots : Begin(s) \/ Finish(s)

SpecConcurrent == Init /\ [][NextConcurrent]_vars

(***************************************************************************)
(* One request, write by write.  The callback of DB.transaction issues its *)
(* writes in order; a write that passes { session } is held by the session *)
(* until the callback returns, a write that does not is stored at once.    *)
(* Any write, and the commit, can fail in the store: the error leaves the  *)
(* callback, the session is aborted and errorHandler answers 500.          *)
(***************************************************************************)
\* status of errorHandler for an error that is no ZodError or CustomError
InternalServerError == 500

Response(req, status, issued) ==
  [op |-> req.op, status |-> status, user_id |-> req.user_id, id |-> req.id,
   ammount |-> 0, wallet_id |-> Omitted, issued |-> issued,
   category_id |-> Omitted, parent_id |-> NoId]

Receive ==
  /\ nops < MaxOps
  /\ session.phase = "closed"
  /\ \E req \in OwnerRequests :
       /\ Creates(req) => nextId <= MaxTx
       /\ LET r == Handle(req, Db, Db, ignoreUndefined)
          IN session' = [phase |-> "open", req |-> req, status |-> r.status,
                         start |-> Db, all |-> r.writes,
                         todo |-> r.writes, held |-> <<>>]
  /\ nops' = nops + 1
  /\ UNCHANGED <<wallets, transactions, categories, nextId, ignoreUndefined, last,
                 inflight>>
  /\ UNCHANGED side

Issue ==
  /\ session.phase = "open"
  /\ session.todo # <<>>
  /\ LET wr == Head(session.todo)
         db == IF wr.session THEN Db ELSE ApplyWrite(Db, wr)
     IN /\ wallets' = db.wallets
        /\ transactions' = db.transactions
        /\ categories' = db.categories
        /\ nextId' = db.nextId
        /\ session' = [session EXCEPT
                         !.todo = Tail(session.todo),
                         !.held = IF wr.session THEN Append(session.held, wr)
                                  ELSE session.held]
  /\ UNCHANGED <<ignoreUndefined, nops, last, inflight>>
  /\ UNCHANGED side

Fail ==
  /\ session.phase = "open"
  /\ session.todo # <<>> \/ session.status < 400
  /\ session' = Closed
  /\ last' = Response(session.req, InternalServerError,
                      Len(session.all) - Len(session.todo))
  /\ UNCHANGED <<wallets, transactions, categories, nextId, ignoreUndefined, nops,
                 inflight>>
  /\ UNCHANGED side

Return ==
  /\ session.phase = "open"
  /\ session.todo = <<>>
  /\ LET db == DBtransaction(Db, Resp(session.status, session.held))
     IN /\ wallets' = db.wallets
        /\ transactions' = db.transactions
        /\ categories' = db.categories
        /\ nextId' = db.nextId
  /\ session' = Closed
  /\ last' = Response(session.req, session.status, Len(session.all))
  /\ UNCHANGED <<ignoreUndefined, nops, inflight>>
  /\ UNCHANGED side

NextSession ==
  \/ Receive
  \/ Issue
  \/ Fail
  \/ Return

SpecSession == Init /\ [][NextSession]_vars

(***************************************************************************)
(* The assistant: the create with the low-balance notification, and        *)
(* POST /api/messages.  The language model and the push service are        *)
(* outside the program; what they answer is an input of the request.       *)
(***************************************************************************)
\* how the low-balance step ends: the notification is sent, or the model
\* call, the parsing of its answer, the insert of the notification or the
\* push request throws
NotifyOutcomes == {"sent", "model", "parse", "insert", "push"}

\* POST /api/transactions with the low-balance step at the end of the
\* callback; up to the wallet update it is the handler above
POST_transactions_notify(user_id, body, pre, cur, outcome) ==
  LET created == POST_transactions(user_id, body, pre, cur)
  IN IF created.status # 201 THEN created
     ELSE
       LET walletNew ==
             [pre.wallets[body.wallet_id] EXCEPT !.balance = created.writes[2].v]
       IN IF ~(walletNew.balance <= walletNew.threshold) THEN created
          ELSE IF outcome \in {"model", "parse", "insert"}
          THEN Resp(InternalServerError, created.writes)
          ELSE IF outcome = "push"
          THEN Resp(InternalServerError, Append(created.writes, NotificationCreate))
          ELSE Resp(201, Append(created.writes, NotificationCreate))

\* creates of an expense and of an income
NotifyBodies ==
  [ammount : Amounts,
   category_id : {"c_repay", "c_collect"},
   wallet_id : WalletIds,
   parent_id : {NoId},
   remaining_ammount : {Undefined}]

ChatStatuses == {"input", "ask", "other"}
\* a category of the user, a category of another user, nobody's category
CategoryNames == {"Debt Collection", "Gift", "Unknown"}

\* what the language model answers: the call throws, the text is empty, the
\* text is no JSON, the JSON reports that nothing was recognised, or the
\* JSON carries the data of a transaction
AiResponses ==
  {[kind |-> "throws"], [kind |-> "empty"], [kind |-> "unparsable"], [kind |-> "error"]}
    \cup [kind : {"data"}, ammount : Amounts, category_name : CategoryNames]

MessageBodies == [chat_status : ChatStatuses, wallet_id : WalletIds]

\* variant: every message is read as the data of a transaction
IsInputAlways(chat_status) == TRUE

\* the branch that turns the message into a transaction
IsInput(chat_status) == chat_status = "input"

AiMessage(body) ==
  MessageCreate([user_id |-> "ai", chat_status |-> body.chat_status,
                 wallet_id |-> body.wallet_id])

POST_messages(user_id, body, pre, cur, ai) ==
  IF \/ body.wallet_id \notin DOMAIN pre.wallets
     \/ pre.wallets[body.wallet_id].user_id # user_id
  THEN Resp(404, <<>>)
  ELSE
    LET wallet == pre.wallets[body.wallet_id]
        userMessage ==
          MessageCreate([user_id |-> user_id, chat_status |-> body.chat_status,
                         wallet_id |-> body.wallet_id])
        begun == <<RoomFirstOrCreate(user_id), userMessage>>
        replied == Append(begun, AiMessage(body))
        found == CategoryByName(cur.categories, user_id, ai.category_name)
        category == CHOOSE c \in found : TRUE
        type == cur.categories[category].type
        transactionData ==
          [ammount |-> ai.ammount,
           category_id |-> category,
           wallet_id |-> body.wallet_id,
           parent_id |-> NoId,
           remaining_ammount |-> IF type \in {"debt", "loan"} THEN ai.ammount ELSE 0,
           message_id |-> Len(cur.messages) + 2]
    IN IF IsInput(body.chat_status)
       THEN IF ai.kind \in {"throws", "empty", "unparsable"}
            THEN Resp(InternalServerError, begun)
            ELSE IF ai.kind = "error" \/ ai.ammount = 0 THEN Resp(201, replied)
            ELSE IF found = {} THEN Resp(404, replied)
            ELSE Resp(201, replied \o
                   <<TransactionCreate(transactionData),
                     WalletUpdate(body.wallet_id,
                                  wallet.balance + Sign(type) * ai.ammount)>>)
       ELSE IF body.chat_status = "ask"
       THEN IF ai.kind \in {"throws", "empty"}
            THEN Resp(InternalServerError, begun)
            ELSE Resp(201, replied)
       ELSE Resp(201, begun)

\* the categories of the users, with one that is only u2's
AssistantCategories ==
  [c \in DOMAIN InitCategories \cup {"d_gift"} |->
     IF c = "d_gift" THEN [user_id |-> "u2", name |-> "Gift", type |-> "income"]
     ELSE InitCategories[c]]

InitAssistant ==
  /\ wallets = InitWallets
  /\ transactions = <<>>
  /\ categories = AssistantCategories
  /\ nextId = 1
  /\ ignoreUndefined \in BOOLEAN
  /\ nops = 0
  /\ last = NoRequest
  /\ inflight = [s \in Slots |-> Idle]
  /\ session = Closed
  /\ notifications = 0
  /\ messages = <<>>
  /\ rooms = {}
  /\ payments = <<>>
  /\ users = InitUsers

\* the request is served: all collections take the outcome of DB.transaction
ServeAssistant(response, r) ==
  /\ nops' = nops + 1
  /\ LET db == DBtransaction(Db, r)
     IN /\ wallets' = db.wallets
        /\ transactions' = db.transactions
        /\ categories' = db.categories
        /\ nextId' = db.nextId
        /\ notifications' = db.notifications
        /\ messages' = db.messages
        /\ rooms' = db.rooms
        /\ payments' = db.payments
        /\ users' = db.users
  /\ last' = response @@ [status |-> r.status, issued |-> Len(r.writes)]
  /\ UNCHANGED <<ignoreUndefined, inflight, session>>

CreateNotify ==
  /\ nops < MaxOps
  /\ \E user_id \in Users, body \in NotifyBodies, outcome \in NotifyOutcomes :
    /\ nextId <= MaxTx
    /\ ServeAssistant([op |-> "create_notify", user_id |-> user_id, id |-> nextId,
                       ammount |-> body.ammount, wallet_id |-> body.wallet_id,
                       category_id |-> body.category_id, parent_id |-> body.parent_id,
                       outcome |-> outcome],
                      POST_transactions_notify(user_id, body, Db, Db, outcome))

PostMessage ==
  /\ nops < MaxOps
  /\ \E user_id \in Users, body \in MessageBodies, ai \in AiResponses :
    /\ nextId <= MaxTx
    /\ ServeAssistant([op |-> "message", user_id |-> user_id, id |-> nextId,
                       ammount |-> 0, wallet_id |-> body.wallet_id,
                       category_id |-> Omitted, parent_id |-> NoId,
                       chat_status |-> body.chat_status, ai |-> ai],
                      POST_messages(user_id, body, Db, Db, ai))

NextAssistant ==
  \/ CreateNotify
  \/ PostMessage

SpecAssistant == InitAssistant /\ [][NextAssistant]_vars

(***************************************************************************)
(* The transactions that name a message: the ones POST /api/messages       *)
(* creates from the answer of the language model, and the ones a client    *)
(* creates with a message_id in the body.                                  *)
(***************************************************************************)
\* the answers to an input message: nothing was recognised, or the data of a
\* transaction with whatever number the JSON carries as its amount
LinkedResponses ==
  {[kind |-> "error"]}
    \cup [kind : {"data"}, ammount : -1..1, category_name : {"Debt Collection"}]

\* creates of an income that name no message or a stored message
LinkedBodies ==
  [ammount : {1},
   category_id : {"c_collect"},
   wallet_id : {"w1"},
   parent_id : {NoId},
   remaining_ammount : {Undefined},
   message_id : {NoId} \cup (1..Len(messages))]

CreateLinked ==
  /\ nops < MaxOps
  /\ \E user_id \in Users, body \in LinkedBodies :
    /\ nextId <= MaxTx
    /\ ServeAssistant([op |-> "create", user_id |-> user_id, id |-> nextId,
                       ammount |-> body.ammount, wallet_id |-> body.wallet_id,
                       category_id |-> body.category_id, parent_id |-> body.parent_id,
                       message_id |-> body.message_id],
                      POST_transactions(user_id, body, Db, Db))

PostInput ==
  /\ nops < MaxOps
  /\ \E body \in [chat_status : {"input"}, wallet_id : {"w1"}], ai \in LinkedResponses :
    /\ nextId <= MaxTx
    /\ ServeAssistant([op |-> "message", user_id |-> "u1", id |-> nextId,
                       ammount |-> 0, wallet_id |-> body.wallet_id,
                       category_id |-> Omitted, parent_id |-> NoId,
                       chat_status |-> body.chat_status, ai |-> ai],
                      POST_messages("u1", body, Db, Db, ai))

NextLinked ==
  \/ CreateLinked
  \/ PostInput

SpecLinked == InitAssistant /\ [][NextLinked]_vars

(***************************************************************************)
(* The date of a transaction.  A Date is a number of ticks since the       *)
(* epoch; its ISO string is the calendar day, "T", and the time of day.    *)
(***************************************************************************)
TicksPerDay == 2

Days == 0..MaxDay
\* what new Date() can return
Clock == 0..((MaxDay + 1) * TicksPerDay - 1)

\* date.toISOString().slice(0, 10)
Slice0_10(date) == date \div TicksPerDay

\* date.toISOString().slice(11)
Slice11(date) == date % TicksPerDay

\* new Date(`${day}T${time}`)
NewDate(day, time) == day * TicksPerDay + time

\* transactionDate of the first revision of the update
TransactionDate(stored, supplied, now) ==
  LET oldTransactionDate == Slice0_10(stored)
  IN IF oldTransactionDate = supplied THEN stored
     ELSE LET oldTime == Slice11(stored)
          IN NewDate(supplied, oldTime)

POST_transactions_dated(user_id, body, pre, cur, now) ==
  LET created == POST_transactions(user_id, body, pre, cur)
      transactionDate == NewDate(body.date, Slice11(now))
  IN IF created.status # 201 THEN created
     ELSE Resp(201, <<TransactionCreate(created.writes[1].doc
                                          @@ [date |-> transactionDate]),
                      created.writes[2]>>)

PUT_transactions_dated(user_id, id, body, pre, cur, ignore, now) ==
  LET updated == PUT_transactions(user_id, id, body, pre, cur, ignore)
      n == Len(updated.writes)
      transactionDate == TransactionDate(pre.transactions[id].date, body.date, now)
  IN IF updated.status # 200 THEN updated
     ELSE Resp(200, [updated.writes EXCEPT ![n] =
                       TransactionUpdate(id, @.doc @@ [date |-> transactionDate])])

PUT_transactions_v2_dated(user_id, id, body, pre, cur, now) ==
  LET updated == PUT_transactions_v2(user_id, id, body, pre, cur)
      n == Len(updated.writes)
      date == IF body.date # Undefined
              THEN [date |-> NewDate(body.date, Slice11(now))]
              ELSE <<>>
  IN IF updated.status # 200 THEN updated
     ELSE Resp(200, [updated.writes EXCEPT ![n] =
                       TransactionUpdate(id, @.doc @@ date)])

\* the bodies of an income of u1 in w1
DatedBodies ==
  [ammount : Amounts,
   category_id : {"c_collect"},
   wallet_id : {"w1"},
   parent_id : {NoId},
   remaining_ammount : {Undefined},
   date : Days]

DatedBodiesV2 ==
  [ammount : Amounts,
   category_id : {"c_collect"},
   wallet_id : {"w1"},
   parent_id : {NoId},
   remaining_ammount : {Undefined},
   date : Days \cup {Undefined}]

\* the request is served, and the date of its body is recorded
ServeDated(op, id, body, r) ==
  /\ nops' = nops + 1
  /\ LET db == DBtransaction(Db, r)
     IN /\ wallets' = db.wallets
        /\ transactions' = db.transactions
        /\ nextId' = db.nextId
  /\ last' = [op |-> op, status |-> r.status, user_id |-> "u1", id |-> id,
              ammount |-> body.ammount, date |-> body.date]
  /\ UNCHANGED <<categories, ignoreUndefined, inflight, session>>
  /\ UNCHANGED side

CreateDated ==
  /\ nops < MaxOps
  /\ \E body \in DatedBodies, now \in Clock :
    /\ nextId <= MaxTx
    /\ ServeDated("create", nextId, body,
                  POST_transactions_dated("u1", body, Db, Db, now))

UpdateDated ==
  /\ nops < MaxOps
  /\ \E id \in DOMAIN transactions, body \in DatedBodies, now \in Clock :
    ServeDated("update", id, body,
               PUT_transactions_dated("u1", id, body, Db, Db, ignoreUndefined, now))

UpdateDatedV2 ==
  /\ nops < MaxOps
  /\ \E id \in DOMAIN transactions, body \in DatedBodiesV2, now \in Clock :
    ServeDated("update_v2", id, body,
               PUT_transactions_v2_dated("u1", id, body, Db, Db, now))

NextDated ==
  \/ CreateDated
  \/ UpdateDated
  \/ UpdateDatedV2

SpecDated == Init /\ [][NextDated]_vars

(***************************************************************************)
(* Payments: POST /api/payments creates the payment of an invoice, and the *)
(* payment provider calls one of two webhooks when the invoice is paid.    *)
(* The provider and the database are outside the program: `outcome` tells  *)
(* which call, if any, throws.                                             *)
(***************************************************************************)
\* the creation of the invoice succeeds or throws
InvoiceOutcomes == {"ok", "invoice"}
\* nothing throws, the update of the payment throws, the update of the user
\* throws
PaymentOutcomes == {"ok", "payment", "user"}

POST_payments(user_id, pre, cur, outcome) ==
  IF user_id \notin DOMAIN cur.users THEN Resp(401, <<>>)
  ELSE IF outcome = "invoice"
  THEN Resp(InternalServerError, <<PaymentCreate([user_id |-> user_id, status |-> Omitted])>>)
  ELSE Resp(200, <<PaymentCreate([user_id |-> user_id, status |-> Omitted])>>)

\* the webhook of a paid invoice
POST_webhook(body, pre, cur, outcome) ==
  IF body.external_id \notin DOMAIN pre.payments THEN Resp(404, <<>>)
  ELSE IF body.status # "PAID" THEN Resp(200, <<>>)
  ELSE IF outcome = "payment" THEN Resp(InternalServerError, <<>>)
  ELSE
    LET updated == PaymentUpdate(body.external_id, "success")
        payment == cur.payments[body.external_id]
    IN IF outcome = "user" THEN Resp(InternalServerError, <<updated>>)
       ELSE Resp(200, <<updated, UserUpdate(payment.user_id, "premium")>>)

\* the webhook of a payment confirmation
POST_confirmation(body, pre, cur, outcome) ==
  IF body.status # "SUCCEEDED" THEN Resp(200, <<>>)
  ELSE IF outcome = "payment" THEN Resp(InternalServerError, <<>>)
  ELSE IF body.reference_id \notin DOMAIN cur.payments THEN Resp(401, <<>>)
  ELSE
    LET updated == PaymentUpdate(body.reference_id, "success")
        payment == cur.payments[body.reference_id]
    IN IF outcome = "user" THEN Resp(InternalServerError, <<updated>>)
       ELSE Resp(200, <<updated, UserUpdate(payment.user_id, "premium")>>)

\* ids of the stored payments and of one that is not stored
PaymentIds == 1..(Len(payments) + 1)

\* the request is served: payments and users take the outcome of
\* DB.transaction
ServePayment(response, r) ==
  /\ nops' = nops + 1
  /\ LET db == DBtransaction(Db, r)
     IN /\ payments' = db.payments
        /\ users' = db.users
  /\ last' = response @@ [status |-> r.status, issued |-> Len(r.writes)]
  /\ UNCHANGED <<wallets, transactions, categories, nextId, ignoreUndefined,
                 inflight, session, notifications, messages, rooms>>

CreatePayment ==
  /\ nops < MaxOps
  /\ Len(payments) < MaxPayments
  /\ \E user_id \in Users, outcome \in InvoiceOutcomes :
    ServePayment([op |-> "payment", user_id |-> user_id, id |-> Len(payments) + 1,
                  paid |-> FALSE, outcome |-> outcome],
                 POST_payments(user_id, Db, Db, outcome))

Webhook ==
  /\ nops < MaxOps
  /\ \E body \in [external_id : PaymentIds, status : {"PAID", "EXPIRED"}],
        outcome \in PaymentOutcomes :
    ServePayment([op |-> "webhook", id |-> body.external_id,
                  paid |-> body.status = "PAID", outcome |-> outcome],
                 POST_webhook(body, Db, Db, outcome))

Confirmation ==
  /\ nops < MaxOps
  /\ \E body \in [reference_id : PaymentIds, status : {"SUCCEEDED", "FAILED"}],
        outcome \in PaymentOutcomes :
    ServePayment([op |-> "confirmation", id |-> body.reference_id,
                  paid |-> body.status = "SUCCEEDED", outcome |-> outcome],
                 POST_confirmation(body, Db, Db, outcome))

NextPayment ==
  \/ CreatePayment
  \/ Webhook
  \/ Confirmation

SpecPayment == Init /\ [][NextPayment]_vars

(***************************************************************************)
(* errorHandler: what the catch block of every handler answers for the     *)
(* value that was thrown.                                                  *)
(***************************************************************************)
IssueMessages ==
  {"Name is required", "Amount must be a positive number",
   "Date must be in YYYY-MM-DD format"}

\* a ZodError carries at least one issue
ZodErrors ==
  [kind : {"ZodError"},
   issues : UNION {[1..n -> [message : IssueMessages]] : n \in 1..MaxIssues}]

\* new CustomError(message = "ISE", status = 500)
CustomErrors ==
  [kind : {"CustomError"},
   message : {"ISE", "Transaction not found", "Wallet not found"},
   status : {400, 401, 403, 404, 500}]

\* any other value: an Error of the runtime or of a library, or a value that
\* is no Error
OtherThrown ==
  [kind : {"Error", "TypeError", "SyntaxError", "string"},
   message : {"Unexpected token", "connection refused"}]

Thrown == ZodErrors \cup CustomErrors \cup OtherThrown

\* variant: the message of any Error is passed on
errorHandlerPassesMessage(err) ==
  IF err.kind = "ZodError" THEN [message |-> err.issues[1].message, status |-> 400]
  ELSE IF err.kind = "CustomError" THEN [message |-> err.message, status |-> err.status]
  ELSE [message |-> err.message, status |-> InternalServerError]

errorHandler(err) ==
  IF err.kind = "ZodError"
  THEN LET errors == err.issues
           error == errors[1]
       IN [message |-> error.message, status |-> 400]
  ELSE IF err.kind = "CustomError"
  THEN [message |-> err.message, status |-> err.status]
  ELSE [message |-> "Internal Server Error", status |-> InternalServerError]

\* a handler has thrown `error` and nothing has been answered yet
InitErrors ==
  /\ wallets = InitWallets
  /\ transactions = <<>>
  /\ categories = InitCategories
  /\ nextId = 1
  /\ ignoreUndefined = TRUE
  /\ nops = 0
  /\ \E err \in Thrown : last = [op |-> "thrown", error |-> err]
  /\ inflight = [s \in Slots |-> Idle]
  /\ session = Closed
  /\ notifications = 0
  /\ messages = <<>>
  /\ rooms = {}
  /\ payments = <<>>
  /\ users = InitUsers

\* catch (error) { const { message, status } = errorHandler(error); ... }
Catch ==
  /\ last.op = "thrown"
  /\ last' = [op |-> "caught", error |-> last.error,
              response |-> errorHandler(last.error)]
  /\ UNCHANGED <<wallets, transactions, categories, nextId, ignoreUndefined, nops,
                 inflight, session>>
  /\ UNCHANGED side

NextErrors ==
  \/ Catch

SpecErrors == InitErrors /\ [][NextErrors]_vars

(***************************************************************************)
(* Properties of the ledger.                                               *)
(***************************************************************************)
TypeOfTx(txs, id) ==
  IF txs[id].category_id \in DOMAIN categories
  THEN categories[txs[id].category_id].type ELSE "none"

\* the signed amount of a stored transaction: + for income and debt, - for
\* expense and loan (a repayment is an expense, a collection an income)
SignedAmount(txs, id) == Sign(TypeOfTx(txs, id)) * txs[id].ammount

RECURSIVE SumSigned(_, _)
SumSigned(txs, S) ==
  IF S = {} THEN 0
  ELSE LET c == CHOOSE x \in S : TRUE
       IN SignedAmount(txs, c) + SumSigned(txs, S \ {c})

InWallet(txs, S, w) == {t \in S : txs[t].wallet_id = w}

IsChildRequest == last'.op \in {"repayment", "collection"}

\* C1: every wallet's stored balance is its balance at creation plus the sum
\* of the signed amounts of the transactions that now exist in it.
C1_BalanceIsSum ==
  \A w \in DOMAIN wallets :
    wallets[w].balance =
      InitBalance + SumSigned(transactions, InWallet(transactions, DOMAIN transactions, w))

\* C2: every debt or loan transaction has remaining_ammount equal to its
\* ammount minus the sum of its children's ammounts, and never negative.
C2_RemainingIsAmmountMinusChildren ==
  \A id \in DOMAIN transactions :
    TypeOfTx(transactions, id) \in {"debt", "loan"} =>
      /\ transactions[id].remaining_ammount =
           transactions[id].ammount
             - SumAmmount(transactions, Children(transactions, id))
      /\ transactions[id].remaining_ammount >= 0

\* the request of this step pays more than the parent has left, or the
\* parent has nothing left
Overpays ==
  /\ IsChildRequest
  /\ last'.id \in DOMAIN transactions
  /\ \/ last'.ammount > transactions[last'.id].remaining_ammount
     \/ transactions[last'.id].remaining_ammount = 0

HoldsCategory(user_id, op) ==
  CategoryByName(categories, user_id,
                 IF op = "repayment" THEN "Repayment" ELSE "Debt Collection") # {}

\* C3 as stated: a repayment or collection that overpays is rejected with
\* status 400 and leaves the wallets and the transactions as they were.
C3_OverpaymentIs400 ==
  [][Overpays =>
       /\ last'.status = 400
       /\ wallets' = wallets
       /\ transactions' = transactions]_vars

\* C3 amended: a repayment or collection that overpays is rejected, with
\* status 400 when the requesting user holds the endpoint's category and
\* with 404 when not, and leaves the wallets and the transactions as they
\* were.
C3_OverpaymentRejected ==
  [][Overpays =>
       /\ last'.status = (IF HoldsCategory(last'.user_id, last'.op) THEN 400 ELSE 404)
       /\ wallets' = wallets
       /\ transactions' = transactions]_vars

\* a repayment larger than what is left of a partly repaid debt was rejected
C3_Witness ==
  /\ last.op \in {"repayment", "collection"}
  /\ last.status = 400
  /\ last.id \in DOMAIN transactions
  /\ TypeOfTx(transactions, last.id) \in {"debt", "loan"}
  /\ Children(transactions, last.id) # {}
  /\ transactions[last.id].remaining_ammount > 0
  /\ transactions[last.id].remaining_ammount < transactions[last.id].ammount
  /\ last.ammount > transactions[last.id].remaining_ammount

\* C7: a successful delete of a parent with children removes the parent and
\* every child, and takes from every wallet exactly the signed amounts the
\* parent and the children had in that wallet.
C7_DeleteParentRestoresBalances ==
  [][(/\ last'.op = "delete"
      /\ last'.status = 200
      /\ Children(transactions, last'.id) # {}) =>
       LET gone == {last'.id} \cup Children(transactions, last'.id)
       IN /\ DOMAIN transactions' = DOMAIN transactions \ gone
          /\ \A w \in DOMAIN wallets :
               wallets'[w].balance =
                 wallets[w].balance
                   - SumSigned(transactions, InWallet(transactions, gone, w))]_vars

\* the remaining_ammount of a debt or loan agrees with its children
Consistent(txs, id) ==
  txs[id].remaining_ammount = txs[id].ammount - SumAmmount(txs, Children(txs, id))

\* C8: a successful delete of a child of a debt or loan (whose
\* remaining_ammount agreed with its children) gives the child's ammount back
\* to the parent's remaining_ammount, which does not exceed the parent's
\* ammount.
C8_DeleteChildRestoresRemaining ==
  [][(/\ last'.op = "delete"
      /\ last'.status = 200
      /\ transactions[last'.id].parent_id \in DOMAIN transactions \ {last'.id}
      /\ TypeOfTx(transactions, transactions[last'.id].parent_id) \in {"debt", "loan"}
      /\ Consistent(transactions, transactions[last'.id].parent_id)) =>
       LET parent == transactions[last'.id].parent_id
       IN /\ transactions'[parent].remaining_ammount =
               transactions[parent].remaining_ammount + transactions[last'.id].ammount
          /\ transactions'[parent].remaining_ammount <= transactions'[parent].ammount]_vars

\* C9: a successful update that moves a transaction from wallet A to wallet B
\* takes the old signed amount from A and adds the new signed amount to B.
C9_WalletChangeMovesEffect ==
  [][(/\ last'.op \in {"update", "update_v2"}
      /\ last'.status = 200
      /\ transactions'[last'.id].wallet_id # transactions[last'.id].wallet_id) =>
       LET A == transactions[last'.id].wallet_id
           B == transactions'[last'.id].wallet_id
       IN /\ wallets'[A].balance = wallets[A].balance - SignedAmount(transactions, last'.id)
          /\ wallets'[B].balance = wallets[B].balance + SignedAmount(transactions', last'.id)]_vars

\* C10: a successful repayment or collection of ammount a changes the chosen
\* wallet's balance by -a when the parent is a debt and by +a when it is a
\* loan.
C10_OppositeSignOfParent ==
  [][(IsChildRequest /\ last'.status = 200) =>
       LET type == TypeOfTx(transactions, last'.id)
           delta == wallets'[last'.wallet_id].balance - wallets[last'.wallet_id].balance
       IN /\ type = "debt" => delta = -last'.ammount
          /\ type = "loan" => delta = last'.ammount]_vars

\* two requests that read the same store have both reported success
BothSucceeded(s, t) ==
  /\ s # t
  /\ inflight[s].phase = "done" /\ inflight[t].phase = "done"
  /\ inflight[s].status < 400 /\ inflight[t].status < 400
  /\ inflight[s].pre = inflight[t].pre

\* C4: when two requests that ran together have both reported success, every
\* wallet's balance is the balance they started from plus the balance delta
\* of both.
C4_NoLostBalanceUpdate ==
  \A s, t \in Slots :
    BothSucceeded(s, t) =>
      \A w \in WalletIds :
        wallets[w].balance =
          inflight[s].pre.wallets[w].balance + inflight[s].delta[w] + inflight[t].delta[w]

\* C5: when two repayments or collections against one debt or loan (whose
\* remaining_ammount agreed with its children) ran together and both
\* reported success, the parent's children do not sum to more than its
\* ammount and its remaining_ammount still agrees with them.
C5_NoDoublePayment ==
  \A s, t \in Slots :
    (/\ BothSucceeded(s, t)
     /\ inflight[s].req.op \in {"repayment", "collection"}
     /\ inflight[t].req.op \in {"repayment", "collection"}
     /\ inflight[s].req.body.parent_id = inflight[t].req.body.parent_id
     /\ Consistent(inflight[s].pre.transactions, inflight[s].req.body.parent_id)) =>
      LET parent == inflight[s].req.body.parent_id
      IN /\ SumAmmount(transactions, Children(transactions, parent))
              <= transactions[parent].ammount
         /\ Consistent(transactions, parent)

DbNext == [wallets |-> wallets', transactions |-> transactions',
           categories |-> categories', nextId |-> nextId',
           notifications |-> notifications', messages |-> messages', rooms |-> rooms',
           payments |-> payments', users |-> users']

\* C6: while a request runs the store is as the request found it; when the
\* request ends the store holds all of its writes if it reported success and
\* is as the request found it if it failed.
C6_AllOrNothing ==
  [][session.phase = "open" =>
       /\ Db = session.start
       /\ session'.phase = "closed" =>
            DbNext = (IF last'.status < 400
                      THEN ApplyWrites(session.start, session.all)
                      ELSE session.start)]_vars

\* a delete failed in the store after the children were removed and the
\* wallet's balance written
C6_Witness ==
  /\ session.phase = "closed"
  /\ last.op = "delete"
  /\ last.status = InternalServerError
  /\ last.issued >= 2
  /\ last.id \in DOMAIN transactions
  /\ Children(transactions, last.id) # {}

(***************************************************************************)
(* Properties of single requests.                                          *)
(***************************************************************************)
Unchanged == wallets' = wallets /\ transactions' = transactions

\* the type of the category a request names
TypeOfCategory(category_id) ==
  IF category_id \in DOMAIN categories THEN categories[category_id].type ELSE "none"

\* the request of this step was not turned away for ownership or for a
\* document it names that does not exist
Admitted == last'.status \notin {403, 404}

\* C11: a repayment or collection whose parent_id is not an existing
\* transaction of type debt or loan fails and changes nothing.
C11_ChildNeedsDebtParent ==
  [][(/\ IsChildRequest
      /\ \/ last'.id \notin DOMAIN transactions
         \/ TypeOfTx(transactions, last'.id) \notin {"debt", "loan"}) =>
       (last'.status >= 400 /\ Unchanged)]_vars

\* C12: every stored transaction of type income or expense has
\* remaining_ammount 0.
C12_PlainRemainingIsZero ==
  \A id \in DOMAIN transactions :
    TypeOfTx(transactions, id) \in {"income", "expense"} =>
      transactions[id].remaining_ammount = 0

\* the update of this step follows the create of the same transaction and
\* carries the ammount, category, wallet and parent the transaction has
UpdateWithSameData ==
  /\ last.op = "create" /\ last.status = 201
  /\ last'.op = "update" /\ last'.id = last.id
  /\ last'.id \in DOMAIN transactions
  /\ last'.ammount = transactions[last'.id].ammount
  /\ last'.category_id = transactions[last'.id].category_id
  /\ last'.wallet_id = transactions[last'.id].wallet_id
  /\ last'.parent_id = transactions[last'.id].parent_id

\* C13: a create followed by an update with the same data leaves every wallet
\* balance, the transaction's remaining_ammount and its parent's
\* remaining_ammount as they were.
C13_UpdateWithSameDataIsIdentity ==
  [][UpdateWithSameData =>
       LET id == last'.id
           parent == transactions[id].parent_id
       IN /\ wallets' = wallets
          /\ transactions'[id].remaining_ammount = transactions[id].remaining_ammount
          /\ parent \in DOMAIN transactions =>
               transactions'[parent].remaining_ammount =
                 transactions[parent].remaining_ammount]_vars

BalanceChange(w) == wallets'[w].balance - wallets[w].balance

\* C14: a successful update that keeps the wallet adds
\* sign(newType)*newAmount - sign(oldType)*oldAmount to its balance; a
\* successful create adds sign(type)*ammount; a successful delete of a
\* transaction without children adds -sign(type)*ammount.
C14_BalanceDelta ==
  [][/\ (/\ last'.op = "update" /\ last'.status = 200
         /\ last'.wallet_id = transactions[last'.id].wallet_id) =>
          BalanceChange(last'.wallet_id) =
            Sign(TypeOfCategory(last'.category_id)) * last'.ammount
              - SignedAmount(transactions, last'.id)
     /\ (last'.op = "create" /\ last'.status = 201) =>
          BalanceChange(last'.wallet_id) =
            Sign(TypeOfCategory(last'.category_id)) * last'.ammount
     /\ (/\ last'.op = "delete" /\ last'.status = 200
         /\ Children(transactions, last'.id) = {}) =>
          BalanceChange(transactions[last'.id].wallet_id) =
            - SignedAmount(transactions, last'.id)]_vars

\* an update has left the only transaction, in wallet w1, a debt of 2, and
\* the balance of w1 is 2
C14_Witness ==
  /\ last.op = "update" /\ last.status = 200
  /\ nops = 2
  /\ DOMAIN transactions = {1}
  /\ transactions[1].wallet_id = "w1" /\ last.wallet_id = "w1"
  /\ TypeOfTx(transactions, 1) = "debt"
  /\ transactions[1].ammount = 2
  /\ wallets["w1"].balance = 2
  /\ wallets["w2"].balance = 0

\* the update of this step gives a new ammount to a debt or loan that has
\* children and stays a debt or loan
UpdatesDebtWithChildren ==
  /\ last'.op = "update"
  /\ Admitted
  /\ last'.id \in DOMAIN transactions
  /\ TypeOfTx(transactions, last'.id) \in {"debt", "loan"}
  /\ TypeOfCategory(last'.category_id) \in {"debt", "loan"}
  /\ Children(transactions, last'.id) # {}

\* C15: an admitted update of the ammount of a debt or loan with children is
\* rejected with 400 and changes nothing when the new ammount is less than
\* the sum of the children's ammounts, and when it succeeds the
\* remaining_ammount is the new ammount minus that sum.
C15_ParentAmountUpdate ==
  [][UpdatesDebtWithChildren =>
       LET id == last'.id
           paid == SumAmmount(transactions, Children(transactions, id))
       IN /\ last'.ammount - paid < 0 => (last'.status = 400 /\ Unchanged)
          /\ last'.status = 200 =>
               transactions'[id].remaining_ammount = last'.ammount - paid]_vars

\* a debt whose children sum to 1 has been updated to ammount 1, and nothing
\* is left of it
C15_Witness ==
  /\ last.op = "update" /\ last.status = 200
  /\ last.id \in DOMAIN transactions
  /\ TypeOfTx(transactions, last.id) = "debt"
  /\ Children(transactions, last.id) # {}
  /\ last.ammount = 1
  /\ transactions[last.id].ammount = 1
  /\ transactions[last.id].remaining_ammount = 0
  /\ SumAmmount(transactions, Children(transactions, last.id)) = 1

\* the update of this step gives a child of a debt or loan an ammount with
\* which the children sum to more than the parent's ammount
ChildUpdateExceeds ==
  /\ last'.op = "update"
  /\ Admitted
  /\ last'.id \in DOMAIN transactions
  /\ LET parent == transactions[last'.id].parent_id
     IN /\ parent \in DOMAIN transactions \ {last'.id}
        /\ last'.parent_id \in {NoId, parent}
        /\ TypeOfTx(transactions, parent) \in {"debt", "loan"}
        /\ SumAmmount(transactions, Children(transactions, parent) \ {last'.id})
             + last'.ammount > transactions[parent].ammount

\* C16: an admitted update of a child whose new ammount makes the children
\* sum to more than the parent's ammount is rejected with 400, and the
\* wallets and the transactions are as before the request.
C16_ChildUpdateRejected ==
  [][ChildUpdateExceeds => (last'.status = 400 /\ Unchanged)]_vars

\* the repayment of a debt was updated to more than the debt: the request
\* was rejected after it had issued the write of the wallet's balance
C16_Witness ==
  /\ last.op = "update" /\ last.status = 400
  /\ last.issued >= 1
  /\ last.id \in DOMAIN transactions
  /\ transactions[last.id].parent_id \in DOMAIN transactions
  /\ TypeOfTx(transactions, transactions[last.id].parent_id) = "debt"
  /\ last.ammount > transactions[transactions[last.id].parent_id].ammount

\* C17: no step adds a transaction whose parent_id is a debt or loan with
\* remaining_ammount 0.
C17_NoChildOfSettledParent ==
  [][\A id \in DOMAIN transactions' \ DOMAIN transactions :
       LET parent == transactions'[id].parent_id
       IN (/\ parent \in DOMAIN transactions
           /\ TypeOfTx(transactions, parent) \in {"debt", "loan"}) =>
            transactions[parent].remaining_ammount # 0]_vars

(***************************************************************************)
(* Properties of the assistant.                                            *)
(***************************************************************************)
\* the create of this step, by the owner, brings the wallet's balance to or
\* below its threshold, and the low-balance step fails
LowBalanceStepFails ==
  /\ last'.op = "create_notify"
  /\ Admitted
  /\ last'.outcome # "sent"
  /\ wallets[last'.wallet_id].balance
       + Sign(TypeOfCategory(last'.category_id)) * last'.ammount
         <= wallets[last'.wallet_id].threshold

\* C18: a create whose low-balance notification step fails still reports
\* success, and the transaction row and the new balance are stored.
C18_NotificationFailureKeepsCreate ==
  [][LowBalanceStepFails =>
       /\ last'.status = 201
       /\ DOMAIN transactions' = DOMAIN transactions \cup {last'.id}
       /\ BalanceChange(last'.wallet_id) =
            Sign(TypeOfCategory(last'.category_id)) * last'.ammount]_vars

\* the message of this step is an input whose answer from the model is
\* empty, is no JSON, or names a category the user does not have
InputWithBadAnswer ==
  /\ last'.op = "message"
  /\ Admitted
  /\ last'.chat_status = "input"
  /\ \/ last'.ai.kind \in {"empty", "unparsable"}
     \/ /\ last'.ai.kind = "data"
        /\ CategoryByName(categories, last'.user_id, last'.ai.category_name) = {}

AskMessages ==
  \/ messages' = messages
  \/ messages' = messages \o
       <<[user_id |-> last'.user_id, chat_status |-> "ask", wallet_id |-> last'.wallet_id],
         [user_id |-> "ai", chat_status |-> "ask", wallet_id |-> last'.wallet_id]>>

\* C20 as stated: a message of status ask changes no transaction and no
\* wallet, and writes nothing but the user message and the AI reply.
C20_AskWritesOnlyMessages ==
  [][(last'.op = "message" /\ last'.chat_status = "ask") =>
       /\ Unchanged
       /\ notifications' = notifications
       /\ rooms' = rooms
       /\ AskMessages]_vars

\* C20 amended: a message of status ask changes no transaction and no
\* wallet; it writes the user message and the AI reply, and the room of the
\* user when the user has none.
C20_AskWritesMessagesAndRoom ==
  [][(last'.op = "message" /\ last'.chat_status = "ask") =>
       /\ Unchanged
       /\ notifications' = notifications
       /\ rooms' \in {rooms, rooms \cup {last'.user_id}}
       /\ AskMessages]_vars

\* an ask was answered with text that reads as the data of a transaction:
\* the two messages are stored and no transaction is
C20_Witness ==
  /\ last.op = "message" /\ last.status = 201
  /\ last.chat_status = "ask"
  /\ last.ai.kind = "data"
  /\ Len(messages) = 2
  /\ rooms = {"u1"}
  /\ transactions = <<>>
  /\ \A w \in WalletIds : wallets[w].balance = InitBalance

(***************************************************************************)
(* Properties of the transactions that name a message.                     *)
(***************************************************************************)
\* Transaction.where("message_id", m)
LinkedTo(m) == {t \in DOMAIN transactions : transactions[t].message_id = m}

\* C21: for every message at most one transaction has message_id equal to
\* the id of that message, and one posted input message leads to the
\* creation of at most one transaction.
C21_OneTransactionPerMessage ==
  /\ [](\A m \in 1..Len(messages) : Cardinality(LinkedTo(m)) <= 1)
  /\ [][last'.op = "message" =>
          Cardinality(DOMAIN transactions' \ DOMAIN transactions) <= 1]_vars

\* C24: every stored transaction has an amount greater than zero, whichever
\* request created or updated it.
C24_AmountPositive ==
  \A t \in DOMAIN transactions : transactions[t].ammount > 0

(***************************************************************************)
(* Properties of the ownership checks.                                     *)
(***************************************************************************)
Owns(docs, id, user_id) == id \in DOMAIN docs /\ docs[id].user_id = user_id

Foreign(docs, id, user_id) == id \in DOMAIN docs /\ docs[id].user_id # user_id

\* C22: a create fails with 404 when the wallet or the category of the body
\* does not exist and with 403 when either exists but belongs to another
\* user; no transaction is inserted and no balance changes.  (When one
\* document is missing and the other is another user's, either status is
\* taken to satisfy the claim.)
C22_CreateChecksOwnership ==
  [][last'.op = "create" =>
       LET u == last'.user_id
           w == last'.wallet_id
           c == last'.category_id
       IN /\ ~(Owns(wallets, w, u) /\ Owns(categories, c, u)) =>
               /\ last'.status \in {403, 404}
               /\ Unchanged
               /\ nextId' = nextId
          /\ (w \notin DOMAIN wallets /\ ~Foreign(categories, c, u)) =>
               last'.status = 404
          /\ (c \notin DOMAIN categories /\ ~Foreign(wallets, w, u)) =>
               last'.status = 404
          /\ (Foreign(wallets, w, u) /\ c \in DOMAIN categories) =>
               last'.status = 403
          /\ (Foreign(categories, c, u) /\ w \in DOMAIN wallets) =>
               last'.status = 403]_vars

\* a create that names the user's wallet and another user's category has
\* been refused
C22_Witness ==
  /\ last.op = "create"
  /\ last.status = 403
  /\ Owns(wallets, last.wallet_id, last.user_id)
  /\ Foreign(categories, last.category_id, last.user_id)

\* C23: an update succeeds only if the wallet the transaction is in, the
\* wallet it is moved to (when wallet_id changes) and the category it is
\* given (when category_id changes) are all the requester's; otherwise it
\* fails with 403 and changes nothing.
C23_UpdateChecksOwnership ==
  [][last'.op \in {"update", "update_v2"} =>
       LET u == last'.user_id
           transaction == transactions[last'.id]
           moved == last'.wallet_id \notin {Omitted, transaction.wallet_id}
           recategorised == last'.category_id \notin {Omitted, transaction.category_id}
           allOwned ==
             /\ Owns(wallets, transaction.wallet_id, u)
             /\ moved => Owns(wallets, last'.wallet_id, u)
             /\ recategorised => Owns(categories, last'.category_id, u)
       IN ~allOwned => (last'.status = 403 /\ Unchanged)]_vars

\* the move of the user's own transaction to another user's wallet has been
\* refused
C23_Witness ==
  /\ last.op \in {"update", "update_v2"}
  /\ last.status = 403
  /\ last.id \in DOMAIN transactions
  /\ Owns(wallets, transactions[last.id].wallet_id, last.user_id)
  /\ Foreign(wallets, last.wallet_id, last.user_id)

(***************************************************************************)
(* Properties of errorHandler.                                             *)
(***************************************************************************)
\* C25: errorHandler answers 400 with the message of the first issue for a
\* schema-validation error, the message and status of the error for a
\* CustomError, and exactly {message: "Internal Server Error", status: 500}
\* for every other thrown value.
C25_ErrorHandler ==
  last.op = "caught" =>
    /\ last.error.kind = "ZodError" =>
         last.response = [message |-> Head(last.error.issues).message, status |-> 400]
    /\ last.error.kind = "CustomError" =>
         last.response = [message |-> last.error.message, status |-> last.error.status]
    /\ last.error.kind \notin {"ZodError", "CustomError"} =>
         last.response = [message |-> "Internal Server Error", status |-> 500]

\* a validation error of several issues, the second with another message
\* than the first, has been answered
C25_Witness ==
  /\ last.op = "caught"
  /\ last.error.kind = "ZodError"
  /\ Len(last.error.issues) > 1
  /\ last.error.issues[2].message # last.error.issues[1].message

(***************************************************************************)
(* Properties of the payments.                                             *)
(***************************************************************************)
\* C26: after a webhook for a paid or succeeded payment, either the payment
\* has status success and its user has status premium, or neither the
\* payments nor the users have changed.
C26_PaymentAndUserTogether ==
  [][(last'.op \in {"webhook", "confirmation"} /\ last'.paid) =>
       \/ /\ last'.id \in DOMAIN payments
          /\ payments'[last'.id].status = "success"
          /\ users'[payments[last'.id].user_id].status = "premium"
       \/ /\ payments' = payments
          /\ users' = users]_vars

\* the update of the user has thrown after the payment was updated in the
\* session, and the payment is as it was created
C26_Witness ==
  /\ last.op \in {"webhook", "confirmation"}
  /\ last.paid
  /\ last.outcome = "user"
  /\ last.issued = 1
  /\ last.id \in DOMAIN payments
  /\ payments[last.id].status = Omitted

(***************************************************************************)
(* Properties of the date of a transaction.                                *)
(***************************************************************************)
\* C27: on an update, when the calendar date of the body is the date part
\* of the stored timestamp the stored timestamp is kept; otherwise it
\* becomes the date of the body with the time of day the stored timestamp
\* had.
C27_UpdateKeepsTimeOfDay ==
  [][(/\ last'.op \in {"update", "update_v2"}
      /\ last'.status = 200
      /\ last'.date # Undefined) =>
       LET stored == transactions[last'.id].date
           new == transactions'[last'.id].date
       IN IF Slice0_10(stored) = last'.date
          THEN new = stored
          ELSE /\ Slice0_10(new) = last'.date
               /\ Slice11(new) = Slice11(stored)]_vars

(***************************************************************************)
(* Properties of the requests on the documents of another user.            *)
(***************************************************************************)
\* C28: no successful request of a user changes the balance of a wallet the
\* user does not own, or the remaining_ammount of a transaction in a wallet
\* the user does not own.
C28_OnlyOwnDocumentsChange ==
  [][last'.status \in 200..399 =>
       LET u == last'.user_id
       IN /\ \A w \in DOMAIN wallets :
               wallets[w].user_id # u => wallets'[w].balance = wallets[w].balance
          /\ \A t \in DOMAIN transactions \cap DOMAIN transactions' :
               ~Owns(wallets, transactions[t].wallet_id, u) =>
                 transactions'[t].remaining_ammount = transactions[t].remaining_ammount]_vars

(***************************************************************************)
(* Properties of the effect of a repayment or collection.                  *)
(***************************************************************************)
\* C29: the change of balance made when a repayment or collection is
\* created (-ammount, +ammount) is the effect a later delete or update
\* reverses, sign(type of the child's category) * ammount, for every
\* category the lookup by name can return.
C29_CreatedEffectIsReversedEffect ==
  [][(IsChildRequest /\ last'.status = 200) =>
       BalanceChange(last'.wallet_id) = SignedAmount(transactions', nextId)]_vars

\* C30: when a parent is deleted and one of its children is in another
\* wallet, the effect of the child is reversed on the wallet of the child,
\* and the wallet of the parent changes only by the effect of the parent
\* (and of the children it holds itself).
C30_ChildReversedOnOwnWallet ==
  [][(/\ last'.op = "delete"
      /\ last'.status = 200
      /\ \E c \in Children(transactions, last'.id) :
           transactions[c].wallet_id # transactions[last'.id].wallet_id) =>
       LET parent == transactions[last'.id]
           children == Children(transactions, last'.id)
       IN /\ \A w \in DOMAIN wallets \ {parent.wallet_id} :
               BalanceChange(w) =
                 - SumSigned(transactions, InWallet(transactions, children, w))
          /\ BalanceChange(parent.wallet_id) =
               - SignedAmount(transactions, last'.id)
               - SumSigned(transactions,
                           InWallet(transactions, children, parent.wallet_id))]_vars

(***************************************************************************)
(* Properties of the parent references.                                    *)
(***************************************************************************)
\* C31: every stored transaction that has a parent_id refers to a stored
\* transaction other than itself; after a delete no stored transaction
\* refers to a deleted one.
C31_ParentExists ==
  \A t \in DOMAIN transactions :
    transactions[t].parent_id # NoId =>
      /\ transactions[t].parent_id \in DOMAIN transactions
      /\ transactions[t].parent_id # t

\* C32: when a successful update moves a child from parent A to parent B,
\* the remaining_ammount of A has grown by the old amount of the child and
\* the remaining_ammount of B has shrunk by its new amount.
C32_MoveUpdatesBothParents ==
  [][(/\ last'.op = "update"
      /\ last'.status = 200
      /\ transactions[last'.id].parent_id \in DOMAIN transactions \ {last'.id}
      /\ last'.parent_id \in DOMAIN transactions \ {last'.id}
      /\ last'.parent_id # transactions[last'.id].parent_id) =>
       LET A == transactions[last'.id].parent_id
           B == last'.parent_id
       IN /\ transactions'[A].remaining_ammount =
               transactions[A].remaining_ammount + transactions[last'.id].ammount
          /\ transactions'[B].remaining_ammount =
               transactions[B].remaining_ammount - last'.ammount]_vars

(***************************************************************************)
(* The list of transactions: GET /api/transactions with the optional       *)
(* filters wallet_id, category_id, parent_id, month and year of the query  *)
(* string.  A month is a range of days and a year a range of months.       *)
(***************************************************************************)
DaysPerMonth == 1

MonthsPerYear == 2

Months == 0..(MaxDay \div DaysPerMonth)

Years == 0..(MaxDay \div (DaysPerMonth * MonthsPerYear))

\* where("date", ">=", startDate).where("date", "<=", endDate) of a month
InMonth(date, month) == Slice0_10(date) \div DaysPerMonth = month

\* the same of a year
InYear(date, year) ==
  Slice0_10(date) \div (DaysPerMonth * MonthsPerYear) = year

\* the filters that follow the one on the category
WhereParentAndDate(doc, searchParams) ==
  /\ searchParams.parent_id # NoId => doc.parent_id = searchParams.parent_id
  /\ IF searchParams.month # Undefined THEN InMonth(doc.date, searchParams.month)
     ELSE IF searchParams.year # Undefined THEN InYear(doc.date, searchParams.year)
     ELSE TRUE

Listed(status, ids) == [status |-> status, listed |-> ids]

\* the wallet of the query string is looked up only when it is given
WalletOfQuery(user_id, searchParams, cur) ==
  IF searchParams.wallet_id = Omitted THEN 0
  ELSE IF searchParams.wallet_id \notin DOMAIN cur.wallets THEN 404
  ELSE IF cur.wallets[searchParams.wallet_id].user_id # user_id THEN 403
  ELSE 0

GET_transactions(user_id, searchParams, cur) ==
  LET denied == WalletOfQuery(user_id, searchParams, cur)
  IN IF denied # 0 THEN Listed(denied, {})
     ELSE Listed(200,
            {t \in DOMAIN cur.transactions :
               LET doc == cur.transactions[t]
               IN /\ searchParams.wallet_id # Omitted =>
                       doc.wallet_id = searchParams.wallet_id
                  /\ searchParams.category_id # Omitted =>
                       doc.category_id = searchParams.category_id
                  /\ WhereParentAndDate(doc, searchParams)})

\* the revision that lists the categories of the user when the query
\* names no category
GET_transactions_v2(user_id, searchParams, cur) ==
  LET denied == WalletOfQuery(user_id, searchParams, cur)
      listCategory == {c \in DOMAIN cur.categories :
                         cur.categories[c].user_id = user_id}
  IN IF denied # 0 THEN Listed(denied, {})
     ELSE Listed(200,
            {t \in DOMAIN cur.transactions :
               LET doc == cur.transactions[t]
               IN /\ searchParams.wallet_id # Omitted =>
                       doc.wallet_id = searchParams.wallet_id
                  /\ IF searchParams.category_id # Omitted
                     THEN doc.category_id = searchParams.category_id
                     ELSE doc.category_id \in listCategory
                  /\ WhereParentAndDate(doc, searchParams)})

\* an income of u1 or an expense of u2, in either wallet
ListedBodies ==
  [ammount : {1},
   category_id : {"c_collect", "d_repay"},
   wallet_id : WalletIds,
   parent_id : {NoId} \cup DOMAIN transactions,
   remaining_ammount : {Undefined},
   date : Days]

SearchParams ==
  [wallet_id : WalletIds \cup {"w0", Omitted},
   category_id : {"c_collect", "d_repay", Omitted},
   parent_id : {NoId} \cup DOMAIN transactions,
   month : Months \cup {Undefined},
   year : Years \cup {Undefined}]

\* the requests arrive at midnight: the filters compare days
CreateListed ==
  /\ nops < MaxOps
  /\ \E user_id \in Users, body \in ListedBodies, now \in {NewDate(0, 0)} :
    /\ nextId <= MaxTx
    /\ nops' = nops + 1
    /\ LET r == POST_transactions_dated(user_id, body, Db, Db, now)
           db == DBtransaction(Db, r)
       IN /\ wallets' = db.wallets
          /\ transactions' = db.transactions
          /\ nextId' = db.nextId
          /\ last' = [op |-> "create", status |-> r.status, user_id |-> user_id,
                      id |-> nextId, ammount |-> body.ammount, date |-> body.date]
    /\ UNCHANGED <<categories, ignoreUndefined, inflight, session>>
    /\ UNCHANGED side

\* the response of a list is recorded; the store is only read
ServeList(op, user_id, searchParams, r) ==
  /\ nops' = nops + 1
  /\ last' = [op |-> op, status |-> r.status, user_id |-> user_id,
              searchParams |-> searchParams, listed |-> r.listed]
  /\ UNCHANGED <<wallets, transactions, categories, nextId,
                 ignoreUndefined, inflight, session>>
  /\ UNCHANGED side

List ==
  /\ nops < MaxOps
  /\ \E user_id \in Users, searchParams \in SearchParams :
    ServeList("list", user_id, searchParams,
              GET_transactions(user_id, searchParams, Db))

ListV2 ==
  /\ nops < MaxOps
  /\ \E user_id \in Users, searchParams \in SearchParams :
    ServeList("list_v2", user_id, searchParams,
              GET_transactions_v2(user_id, searchParams, Db))

NextList ==
  \/ CreateListed
  \/ List
  \/ ListV2

SpecList == InitAccess /\ [][NextList]_vars

(***************************************************************************)
(* The update of a wallet: PUT /api/wallets/[id].  Of the fields of the    *)
(* schema the model keeps threshold; a body may also hold fields the       *)
(* schema does not name.                                                   *)
(***************************************************************************)
\* the keys of updateWalletSchema
UpdateWalletKeys == {"name", "description", "type", "target", "threshold"}

\* a schema that lets every key of the body through
Passthrough(body) == body

\* updateWalletSchema.parse(body): a z.object strips the keys it does not
\* name
UpdateWalletSchemaParse(body) ==
  [k \in DOMAIN body \cap UpdateWalletKeys |-> body[k]]

PUT_wallets(user_id, id, body, cur) ==
  LET validatedData == UpdateWalletSchemaParse(body)
  IN IF id \notin DOMAIN cur.wallets \/ cur.wallets[id].user_id # user_id
     THEN Resp(404, <<>>)
     ELSE Resp(200, <<WalletSet(id, validatedData)>>)

\* bodies with any of threshold, balance and user_id
WalletBodies ==
  UNION {[K -> 0..MaxAmount] : K \in SUBSET {"threshold", "balance"}}
    \cup {[balance |-> b, user_id |-> u] : b \in 0..MaxAmount, u \in Users}

UpdateWallet ==
  /\ nops < MaxOps
  /\ \E user_id \in Users, id \in WalletIds \cup {"w0"}, body \in WalletBodies :
    /\ nops' = nops + 1
    /\ LET r == PUT_wallets(user_id, id, body, Db)
       IN /\ wallets' = DBtransaction(Db, r).wallets
          /\ last' = [op |-> "wallet", status |-> r.status, user_id |-> user_id,
                      wallet_id |-> id, body |-> body]
    /\ UNCHANGED <<transactions, categories, nextId,
                   ignoreUndefined, inflight, session>>
    /\ UNCHANGED side

NextWallets ==
  \/ CreateAccess
  \/ UpdateWallet

SpecWallets == InitAccess /\ [][NextWallets]_vars

(***************************************************************************)
(* Properties of the delete after an edit of the category.                 *)
(***************************************************************************)
\* C33: a delete takes from the balance exactly the signed effect the create
\* of the transaction added, also when the type of its category was edited
\* in between.  Stated for the only transaction ever created: once it is
\* deleted every balance is what it was before the create.
C33_DeleteReversesCreatedEffect ==
  [][(/\ last'.op = "delete"
      /\ last'.status = 200
      /\ last'.id = 1
      /\ nextId = 2) =>
       \A w \in DOMAIN wallets : wallets'[w].balance = InitBalance]_vars

(***************************************************************************)
(* Properties of the list of transactions.                                 *)
(***************************************************************************)
\* C34: every transaction the list returns to a user is in a wallet of that
\* user, whatever filters the query string holds and also when it names no
\* wallet.
C34_ListedAreOwn ==
  (last.op \in {"list", "list_v2"} /\ last.status = 200) =>
    \A t \in last.listed :
      wallets[transactions[t].wallet_id].user_id = last.user_id

(***************************************************************************)
(* Properties of the remaining amount a client supplies.                   *)
(***************************************************************************)
\* what is left of transaction `id` when its amount becomes `ammount`
ComputedRemaining(id, ammount) ==
  ammount - SumAmmount(transactions, Children(transactions, id))

\* C35: an update that makes or leaves a transaction a debt or loan and
\* supplies a remaining amount other than the new amount minus the amounts
\* of its children gets 400 and changes nothing; after an update that
\* succeeds the stored remaining amount is the computed one.
C35_RemainingMustMatch ==
  [][(/\ last'.op = "update"
      /\ TypeOfCategory(last'.category_id) \in {"debt", "loan"}
      /\ last'.remaining_ammount # Undefined) =>
       /\ last'.remaining_ammount # ComputedRemaining(last'.id, last'.ammount) =>
            (last'.status = 400 /\ Unchanged)
       /\ last'.status = 200 =>
            transactions'[last'.id].remaining_ammount
              = ComputedRemaining(last'.id, last'.ammount)]_vars

\* a debt with a payment was sent a remaining amount that ignores the
\* payment, with an amount that covers the payment, and the update got 400
C35_Witness ==
  /\ last.op = "update"
  /\ last.status = 400
  /\ TypeOfCategory(last.category_id) \in {"debt", "loan"}
  /\ Children(transactions, last.id) # {}
  /\ ComputedRemaining(last.id, last.ammount) >= 0
  /\ last.remaining_ammount = last.ammount

(***************************************************************************)
(* Properties of the update of a wallet.                                   *)
(***************************************************************************)
\* C36: an update of a wallet leaves the balance of every wallet as it
\* was, whatever the body holds.
C36_WalletUpdateKeepsBalance ==
  [][last'.op = "wallet" =>
       \A w \in DOMAIN wallets :
         /\ w \in DOMAIN wallets'
         /\ wallets'[w].balance = wallets[w].balance]_vars

\* the owner sent a threshold and another balance: the threshold is stored
\* and the balance is not the one of the body
C36_Witness ==
  /\ last.op = "wallet"
  /\ last.status = 200
  /\ DOMAIN last.body = {"threshold", "balance"}
  /\ wallets[last.wallet_id].threshold = last.body.threshold
  /\ last.body.threshold # InitThreshold
  /\ wallets[last.wallet_id].balance # InitBalance
  /\ wallets[last.wallet_id].balance # last.body.balance

====
